---- MODULE Spec2Model ----
(***************************************************************************)
(* A model of the bus data scraper: utils.py (fetch_html, the parsers,     *)
(* clean_time_string, sanitize_filename) and scraper.py (main).            *)
(*                                                                         *)
(* A Python str is modelled as a sequence of one-character strings, so     *)
(* that the regular expressions of the source act on characters; a Python  *)
(* dict is a function whose DOMAIN is the set of keys present.             *)
(***************************************************************************)
EXTENDS Integers, Sequences, FiniteSets, TLC

VARIABLES
    time_str,       \* clean_time_string: the argument
    time_ret,       \* clean_time_string: <<>> before the call, <<value>> after it
    filename,       \* sanitize_filename: the argument
    filename_ret,   \* sanitize_filename: <<>> before the call, <<value>> after it
    retry_count,    \* fetch_html's retry_count (main: the configured retry_count)
    network,        \* fetch_html: what the server answers to the successive requests
    fetch_ret,      \* fetch_html: <<>> before the call, <<outcome>> after it
    soup,           \* extract_stoppage_info: the detail page it is given
    stoppage_ret,   \* extract_stoppage_info: <<>> before the call, <<dict>> after it
    pc,             \* main: "idle" (not run), "pages", "cards", "done"
    start_page,     \* main: config start_page
    end_page,       \* main: config end_page
    page,           \* main: the page loop's variable
    bus_cards,      \* main: the cards of the current page still to be processed
    all_data,       \* main: the accumulated records
    total_buses,    \* main: counter
    page_buses,     \* main: counter of the current page
    successful_downloads, \* main: counter
    events,         \* main: the fetches, sleeps and log lines of the run, in order
    csv_rows,       \* main: <<>>, or <<rows>> once write_csv has written them
    served,         \* the cards the site has served so far in the run
    provenance,     \* history: for each record of all_data, the card it came from
    gated           \* history: the bus cards seen so far that have a name and a registration

normalizer_vars == <<time_str, time_ret>>
sanitizer_vars == <<filename, filename_ret>>
fetcher_vars == <<network, fetch_ret>>
stoppage_vars == <<soup, stoppage_ret>>
main_vars ==
    <<pc, start_page, end_page, page, bus_cards, all_data, total_buses, page_buses,
      successful_downloads, events, csv_rows, served, provenance, gated>>
vars ==
    <<time_str, time_ret, filename, filename_ret, retry_count, network, fetch_ret,
      soup, stoppage_ret, pc, start_page, end_page, page, bus_cards, all_data,
      total_buses, page_buses, successful_downloads, events, csv_rows, served,
      provenance, gated>>

(***************************************************************************)
(* Bounds of the model.                                                    *)
(***************************************************************************)
\* longest enumerated argument of clean_time_string
MaxTimeLen == 3
\* longest enumerated argument of sanitize_filename
MaxNameLen == 3
\* largest retry_count tried
MaxRetry == 3
\* most stoppage matches on one detail page
MaxMatches == 2
\* largest page number of a run
MaxPage == 2
\* most cards the site serves in one run
MaxCards == 2

SeqsUpTo(S, n) == UNION {[1..k -> S] : k \in 0..n}

(***************************************************************************)
(* Characters and the pieces of Python's str and re the source uses.       *)
(***************************************************************************)
\* what \s and str.strip() take for whitespace
Whitespace == {" ", "\t", "\n"}

RECURSIVE LStrip(_)
LStrip(s) == IF s # <<>> /\ Head(s) \in Whitespace THEN LStrip(Tail(s)) ELSE s

RECURSIVE RStrip(_)
RStrip(s) ==
    IF s # <<>> /\ s[Len(s)] \in Whitespace
    THEN RStrip(SubSeq(s, 1, Len(s) - 1))
    ELSE s

\* str.strip()
strip(s) == RStrip(LStrip(s))

RECURSIVE DropRun(_, _)
DropRun(class, s) ==
    IF s # <<>> /\ Head(s) \in class THEN DropRun(class, Tail(s)) ELSE s

\* re.sub(r'[class]+', repl, s): every maximal run of class characters, left to
\* right, becomes one repl
RECURSIVE re_sub_runs(_, _, _)
re_sub_runs(class, repl, s) ==
    IF s = <<>> THEN <<>>
    ELSE IF Head(s) \in class
         THEN repl \o re_sub_runs(class, repl, DropRun(class, s))
         ELSE <<Head(s)>> \o re_sub_runs(class, repl, Tail(s))

\* re.sub(r'[class]', repl, s): every class character becomes one repl
RECURSIVE re_sub_each(_, _, _)
re_sub_each(class, repl, s) ==
    IF s = <<>> THEN <<>>
    ELSE (IF Head(s) \in class THEN repl ELSE <<Head(s)>>)
         \o re_sub_each(class, repl, Tail(s))

\* re.match(r'^[class]*$', s): $ also matches before one trailing newline
re_match_all(class, s) ==
    \/ \A i \in 1..Len(s) : s[i] \in class
    \/ /\ s # <<>>
       /\ s[Len(s)] = "\n"
       /\ \A i \in 1..(Len(s) - 1) : s[i] \in class

(***************************************************************************)
(* utils.clean_time_string                                                 *)
(***************************************************************************)
\* the literal '00'
Placeholder00 == <<"0", "0">>

\* [_\-\s] of line 220
PlaceholderRunClass == {"_", "-"} \cup Whitespace

\* [_\-\s0] of line 223
PlaceholderOnlyClass == PlaceholderRunClass \cup {"0"}

\* line 216: not time_str or time_str.strip() == ''
IsBlank(s) == s = <<>> \/ strip(s) = <<>>

\* line 220
CollapseOnce(s) == re_sub_runs(PlaceholderRunClass, Placeholder00, strip(s))

\* a plausible slip of line 223: compare with the literal instead of matching
IsPlaceholderOnly_literal(cleaned) == cleaned = Placeholder00

\* line 223
IsPlaceholderOnly(cleaned) == re_match_all(PlaceholderOnlyClass, cleaned)

clean_time_string(s) ==
    IF IsBlank(s) THEN Placeholder00
    ELSE LET cleaned == CollapseOnce(s)
         IN  IF IsPlaceholderOnly(cleaned) THEN Placeholder00 ELSE cleaned

(***************************************************************************)
(* utils.sanitize_filename                                                 *)
(***************************************************************************)
\* [<>:"/\\|?*] of line 231
InvalidFilenameChars == {"<", ">", ":", "\"", "/", "\\", "|", "?", "*"}

Underscore == <<"_">>

\* a plausible slip of line 231: [..]+ instead of [..]
ReplaceInvalid_runs(s) == re_sub_runs(InvalidFilenameChars, Underscore, s)

\* line 231
ReplaceInvalid(s) == re_sub_each(InvalidFilenameChars, Underscore, s)

\* line 233
CollapseWhitespace(s) == re_sub_runs(Whitespace, Underscore, s)

sanitize_filename(s) == CollapseWhitespace(ReplaceInvalid(s))

(***************************************************************************)
(* Python values.  None is a one-element sequence holding a word that is   *)
(* no character, so that it compares with every str.                       *)
(***************************************************************************)
None == <<"None">>

EmptyStr == <<>>

\* Python truthiness of a str or None
Truthy(v) == v # None /\ v # EmptyStr

(***************************************************************************)
(* utils.fetch_html                                                        *)
(***************************************************************************)
Html == <<"<", "a", ">">>

\* what requests.get does on one attempt: a response, or an exception raised
Ok(text) == [kind |-> "response", status_code |-> 200, text |-> text, e |-> ""]

Status(code) == [kind |-> "response", status_code |-> code, text |-> Html, e |-> ""]

Raises(e) == [kind |-> "exception", status_code |-> 0, text |-> EmptyStr, e |-> e]

Responses ==
    {Ok(Html), Ok(EmptyStr), Status(404), Status(500),
     Raises("Timeout"), Raises("ConnectionError")}

\* an attempt that does not end the call with the page text (lines 20-23)
FailedAttempt(response) ==
    response.kind = "exception" \/ response.status_code # 200

\* line 12: for attempt in range(retry_count)
InRange(attempt, count) == attempt < count

\* a plausible slip of line 22: a narrower except clause
ExceptClause_narrow(e) == e = "Timeout"

\* line 22: except Exception
ExceptClause(e) == TRUE

\* a plausible slip of line 24: sleeping after the last attempt too
ShouldBackoff_always(attempt, count) == attempt < count

\* line 24
ShouldBackoff(attempt, count) == attempt < count - 1

\* line 21: the values the f-string interpolates
StatusLog(response, url) ==
    [level |-> "ERROR", msg |-> "Unexpected status",
     status_code |-> response.status_code, url |-> url]

\* line 23: the values the f-string interpolates
ExceptionLog(response, url, attempt) ==
    [level |-> "ERROR", msg |-> "Error fetching URL",
     url |-> url, attempt |-> attempt + 1, e |-> response.e]

\* the call's progress: what it returned (NotReturned while running), the
\* requests sent, the log lines written, the order of requests and sleeps
NotReturned == <<"NotReturned">>

FetchStart ==
    [result |-> NotReturned, requests |-> 0, log |-> <<>>, events |-> <<>>,
     raised |-> FALSE]

RECURSIVE fetch_loop(_, _, _, _, _)
fetch_loop(url, count, responses, attempt, st) ==
    IF ~InRange(attempt, count)
    THEN [st EXCEPT !.result = None]
    ELSE LET response == responses[attempt + 1]
             sent == [st EXCEPT !.requests = @ + 1,
                                !.events = Append(@, "request")]
         IN  IF response.kind = "exception" /\ ~ExceptClause(response.e)
             THEN [sent EXCEPT !.raised = TRUE]
             ELSE IF ~FailedAttempt(response)
             THEN [sent EXCEPT !.result = response.text]
             ELSE LET logged ==
                          [sent EXCEPT !.log =
                              Append(@, IF response.kind = "exception"
                                        THEN ExceptionLog(response, url, attempt)
                                        ELSE StatusLog(response, url))]
                      slept ==
                          IF ShouldBackoff(attempt, count)
                          THEN [logged EXCEPT !.events = Append(@, "sleep")]
                          ELSE logged
                  IN  fetch_loop(url, count, responses, attempt + 1, slept)

fetch_html(url, count, responses) == fetch_loop(url, count, responses, 0, FetchStart)

(***************************************************************************)
(* Python dicts and str helpers.                                           *)
(***************************************************************************)
EmptyDict == [k \in {} |-> EmptyStr]

\* d[key] = value
Put(d, key, value) == [k \in DOMAIN d \cup {key} |-> IF k = key THEN value ELSE d[k]]

\* d.update(e), {**d, **e}
Update(d, e) == [k \in DOMAIN d \cup DOMAIN e |-> IF k \in DOMAIN e THEN e[k] ELSE d[k]]

\* d.get(key)
Get(d, key) == IF key \in DOMAIN d THEN d[key] ELSE None

\* d.get(key, default)
GetOr(d, key, default) == IF key \in DOMAIN d THEN d[key] ELSE default

\* sep.join(list)
RECURSIVE join(_, _)
join(sep, list) ==
    IF list = <<>> THEN EmptyStr
    ELSE IF Len(list) = 1 THEN list[1]
    ELSE list[1] \o sep \o join(sep, Tail(list))

StartsWith(s, prefix) ==
    Len(s) >= Len(prefix) /\ SubSeq(s, 1, Len(prefix)) = prefix

\* where sep occurs in s
Occurrences(s, sep) ==
    {i \in 1..(Len(s) - Len(sep) + 1) : SubSeq(s, i, i + Len(sep) - 1) = sep}

\* s.split(sep): cut at the leftmost occurrence, then split the rest
RECURSIVE split(_, _)
split(s, sep) ==
    IF Occurrences(s, sep) = {} THEN <<s>>
    ELSE LET i == CHOOSE k \in Occurrences(s, sep) :
                      \A j \in Occurrences(s, sep) : k <= j
         IN  <<SubSeq(s, 1, i - 1)>> \o split(SubSeq(s, i + Len(sep), Len(s)), sep)

\* list[-1]
Last(list) == list[Len(list)]

\* sub in s
Contains(s, sub) ==
    \E i \in 1..(Len(s) + 1) : StartsWith(SubSeq(s, i, Len(s)), sub)

(***************************************************************************)
(* utils.extract_stoppage_info.  A detail page is what the patterns find   *)
(* in it: the labelled fields, the stoppage matches in order of            *)
(* appearance (three groups each), the route match, the Bus Notes element. *)
(***************************************************************************)
SemicolonSpace == <<";", " ">>

CommaSpace == <<",", " ">>

UptimeLabel == <<",", " ", "U", "p", "t", "i", "m", "e", "-", " ">>

DownTimeLabel == <<",", " ", "D", "o", "w", "n", "T", "i", "m", "e", "-", " ">>

RouteDash == <<" ", "-", " ">>

\* line 152
FormatStoppage(stoppage_name, up_time, down_time) ==
    stoppage_name \o UptimeLabel \o up_time \o DownTimeLabel \o down_time

\* lines 143-154: the three lists, filled match by match
RECURSIVE stoppage_loop(_, _)
stoppage_loop(matches, acc) ==
    IF matches = <<>> THEN acc
    ELSE LET match == Head(matches)
             stoppage_name == strip(match[1])
             up_time == clean_time_string(match[2])
             down_time == clean_time_string(match[3])
         IN  stoppage_loop(Tail(matches),
                 [all_stoppages |->
                      Append(acc.all_stoppages,
                             FormatStoppage(stoppage_name, up_time, down_time)),
                  up_times |-> Append(acc.up_times, up_time),
                  down_times |-> Append(acc.down_times, down_time)])

\* a plausible slip of line 158: the separator without its space
JoinTimes_comma(times) == join(<<",">>, times)

\* lines 158, 159
JoinTimes(times) == join(CommaSpace, times)

\* line 157
JoinStoppages(all_stoppages) == join(SemicolonSpace, all_stoppages)

\* lines 156-159: the three fields, set only when a stoppage was found
StoppageFields(acc) ==
    IF acc.all_stoppages # <<>>
    THEN Put(Put(Put(EmptyDict,
             "all_stoppage", JoinStoppages(acc.all_stoppages)),
             "up_time", JoinTimes(acc.up_times)),
             "down_time", JoinTimes(acc.down_times))
    ELSE EmptyDict

\* lines 162-164: the route, set only when the pattern is found
WithRoute(stoppage_data, route_match) ==
    IF route_match # <<>>
    THEN Put(stoppage_data, "route",
             strip(route_match[1]) \o RouteDash \o strip(route_match[2]))
    ELSE stoppage_data

extract_stoppage_info(detail_page) ==
    WithRoute(
        StoppageFields(
            stoppage_loop(detail_page.matches,
                [all_stoppages |-> <<>>, up_times |-> <<>>, down_times |-> <<>>])),
        detail_page.route_match)

(***************************************************************************)
(* utils.parse_bus_from_card.  A card is what the parser finds in it: the   *)
(* h4 text (<<>>: no h4), the Reg No group (<<>>: no match), the href, the  *)
(* img tag's src (<<>>: no img, <<None>>: img without src), the lines       *)
(* holding a clock time.                                                    *)
(***************************************************************************)
SiteBase ==
    <<"h", "t", "t", "p", "s", ":", "/", "/", "w", "b", "b", "u", "s", ".", "i", "n">>

\* urljoin(base, path) for the site's absolute paths
urljoin(base, path) == base \o path

\* if present: d[key] = value(s)
PutIf(present, d, key, values) == IF present THEN Put(d, key, values[1]) ELSE d

\* lines 63-65
WithTimes(d, time_lines) ==
    IF Len(time_lines) >= 2
    THEN Put(Put(d, "departure", time_lines[1]), "arrival", time_lines[2])
    ELSE d

\* lines 44-46
WithDetailUrl(d, href) ==
    IF Truthy(href) THEN Put(d, "detail_url", urljoin(SiteBase, href)) ELSE d

\* lines 49-51
WithImageUrl(d, img) ==
    IF img # <<>> /\ Truthy(img[1])
    THEN Put(d, "image_url", urljoin(SiteBase, img[1])) ELSE d

parse_bus_from_card(card) ==
    WithTimes(
        WithImageUrl(
            WithDetailUrl(
                PutIf(card.reg # <<>>,
                      PutIf(card.h4 # <<>>, EmptyDict, "bus_name", card.h4),
                      "registration_number", card.reg),
                card.href),
            card.img),
        card.time_lines)

(***************************************************************************)
(* utils.parse_bus_detail                                                  *)
(***************************************************************************)
\* lines 120-125
WithNotes(data, notes) ==
    IF notes # <<>> THEN Put(data, "bus_notes", strip(notes[1])) ELSE data

\* lines 82-113: every label found gives its captured text, stripped
LabelledFields(fields) == [k \in DOMAIN fields |-> strip(fields[k])]

parse_bus_detail(detail_page) ==
    WithNotes(
        Update(LabelledFields(detail_page.fields), extract_stoppage_info(detail_page)),
        detail_page.notes)

(***************************************************************************)
(* scraper.main: the handling of one card (lines 71-149).                  *)
(***************************************************************************)
BusPath == <<"/", "b", "u", "s", "/">>

Dot == <<".">>

Jpg == <<"j", "p", "g">>

\* line 73
IsBusCard(card) == card.img # <<>> /\ card.h4 # <<>>

\* line 78
HasBusHref(card) == Contains(card.href, BusPath)

\* a plausible slip of line 85: only the name is tested
PassesGate_nameOnly(basic_data) == Truthy(Get(basic_data, "bus_name"))

\* line 85
PassesGate(basic_data) ==
    Truthy(Get(basic_data, "bus_name")) /\ Truthy(Get(basic_data, "registration_number"))

\* lines 93-96
DetailData(basic_data, detail_html, detail_page) ==
    IF Truthy(Get(basic_data, "detail_url")) /\ Truthy(detail_html)
    THEN parse_bus_detail(detail_page)
    ELSE EmptyDict

\* a plausible slip of lines 97-98: a continue after the warning
GoesOnAfterDetail_skipOnFailure(basic_data, detail_html) ==
    ~Truthy(Get(basic_data, "detail_url")) \/ Truthy(detail_html)

\* lines 93-100: whatever the detail fetch gave, the handling goes on to the merge
GoesOnAfterDetail(basic_data, detail_html) == TRUE

\* line 104
WantsImage(combined_data) ==
    /\ Truthy(Get(combined_data, "image_url"))
    /\ Truthy(Get(combined_data, "bus_name"))
    /\ Truthy(Get(combined_data, "registration_number"))

\* lines 107-108
Extension(image_url) ==
    IF Contains(image_url, Dot) THEN Last(split(image_url, Dot)) ELSE Jpg

\* lines 111-113
ImageFilename(combined_data) ==
    sanitize_filename(combined_data["bus_name"]) \o Underscore
    \o sanitize_filename(combined_data["registration_number"]) \o Dot
    \o Extension(combined_data["image_url"])

\* lines 123-138
MakeRecord(combined_data) ==
    [c \in {"Bus Name", "Bus Number", "Route", "All Stoppage", "Stoppage Time",
            "Up Time", "Down Time", "AlternateName", "Agency Name", "Bus Type",
            "Contact Number", "Alternate Number", "Depot Name", "Destination"} |->
        GetOr(combined_data,
              CASE c = "Bus Name" -> "bus_name"
                [] c = "Bus Number" -> "registration_number"
                [] c = "Route" -> "route"
                [] c = "All Stoppage" -> "all_stoppage"
                [] c = "Stoppage Time" -> "stoppage_time"
                [] c = "Up Time" -> "up_time"
                [] c = "Down Time" -> "down_time"
                [] c = "AlternateName" -> "alternate_name"
                [] c = "Agency Name" -> "agency_name"
                [] c = "Bus Type" -> "bus_type"
                [] c = "Contact Number" -> "contact_number"
                [] c = "Alternate Number" -> "alternate_number"
                [] c = "Depot Name" -> "depot_name"
                [] c = "Destination" -> "destination",
              EmptyStr)]

\* lines 116-118
WithImageFilename(combined_data, downloaded) ==
    IF WantsImage(combined_data) /\ downloaded
    THEN Put(combined_data, "image_filename", ImageFilename(combined_data))
    ELSE combined_data

\* history: where a record came from
Origin(card, basic_data, combined_data, detail_html, downloaded) ==
    [card |-> card,
     detail |-> IF ~Truthy(Get(basic_data, "detail_url")) THEN "no_url"
                ELSE IF Truthy(detail_html) THEN "fetched"
                ELSE "failed",
     image |-> IF ~WantsImage(combined_data) THEN "none"
               ELSE IF downloaded THEN "downloaded"
               ELSE "failed"]

\* line 98
DetailWarning(basic_data, detail_html) ==
    IF Truthy(Get(basic_data, "detail_url")) /\ ~Truthy(detail_html)
    THEN <<"logging.warning(Could not fetch detail page)">>
    ELSE <<>>

\* lines 100-142, for a card that passed line 85
kept_card(card, basic_data, combined_data, detail_html, downloaded) ==
    [records |-> <<MakeRecord(WithImageFilename(combined_data, downloaded))>>,
     downloads |-> IF WantsImage(combined_data) /\ downloaded THEN 1 ELSE 0,
     log |-> DetailWarning(basic_data, detail_html),
     origin |-> <<Origin(card, basic_data, combined_data, detail_html, downloaded)>>]

\* a card that adds no record
NoRecord(log) == [records |-> <<>>, downloads |-> 0, log |-> log, origin |-> <<>>]

\* lines 85-142, given the parsed card
gated_card(card, basic_data, detail_html, detail_page, downloaded) ==
    IF ~PassesGate(basic_data)
    THEN NoRecord(<<"logging.warning(Skipping bus card with missing basic info)">>)
    ELSE IF ~GoesOnAfterDetail(basic_data, detail_html)
    THEN NoRecord(DetailWarning(basic_data, detail_html))
    ELSE kept_card(card, basic_data,
                   Update(basic_data, DetailData(basic_data, detail_html, detail_page)),
                   detail_html, downloaded)

\* lines 83-145 for one bus card: what it adds to the run.  detail_html is what
\* fetch_html returned for the detail page, detail_page what that page holds,
\* downloaded what download_image returns
card_outcome(card, detail_html, detail_page, downloaded) ==
    gated_card(card, parse_bus_from_card(card), detail_html, detail_page, downloaded)

(***************************************************************************)
(* Specifications of the single functions: the argument is drawn in the    *)
(* initial state and one action makes the call.                            *)
(***************************************************************************)
\* the characters the enumerated time tokens are made of
TimeAlphabet == {"_", "-", " ", "\t", "0", "9"}

\* tokens H:MM AM/PM, with the separators \s* of line 140 admits
ClockTimes ==
    {h \o <<":">> \o mm \o sp \o ap :
        h \in {<<"9">>, <<"1", "2">>},
        mm \in {<<"3", "0">>, <<"0", "0">>},
        sp \in {<<>>, <<" ">>},
        ap \in {<<"A", "M">>, <<"P", "M">>}}

TimeInputs == SeqsUpTo(TimeAlphabet, MaxTimeLen) \cup ClockTimes

NormalizerIdle == time_str = EmptyStr /\ time_ret = <<>>

SanitizerIdle == filename = EmptyStr /\ filename_ret = <<>>

FetcherIdle == network = <<>> /\ fetch_ret = <<>>

NoPage == [fields |-> EmptyDict, matches |-> <<>>, route_match |-> <<>>, notes |-> <<>>]

StoppageIdle == soup = NoPage /\ stoppage_ret = <<>>

MainIdle ==
    /\ pc = "idle"
    /\ start_page = 0
    /\ end_page = 0
    /\ page = 0
    /\ bus_cards = <<>>
    /\ all_data = <<>>
    /\ total_buses = 0
    /\ page_buses = 0
    /\ successful_downloads = 0
    /\ events = <<>>
    /\ csv_rows = <<>>
    /\ served = 0
    /\ provenance = <<>>
    /\ gated = 0

InitClean ==
    /\ time_str \in TimeInputs
    /\ time_ret = <<>>
    /\ SanitizerIdle
    /\ FetcherIdle
    /\ StoppageIdle
    /\ MainIdle
    /\ retry_count = 0

CallCleanTime ==
    /\ time_ret = <<>>
    /\ time_ret' = <<clean_time_string(time_str)>>
    /\ UNCHANGED <<time_str, sanitizer_vars, fetcher_vars, stoppage_vars, retry_count, main_vars>>

NextClean == CallCleanTime

SpecClean == InitClean /\ [][NextClean]_vars

FilenameAlphabet == InvalidFilenameChars \cup {" ", "\t", "_", "A"}

\* "Bus/Name: A*B"
ExampleFilename ==
    <<"B", "u", "s", "/", "N", "a", "m", "e", ":", " ", "A", "*", "B">>

FilenameInputs == SeqsUpTo(FilenameAlphabet, MaxNameLen) \cup {ExampleFilename}

InitSanitize ==
    /\ filename \in FilenameInputs
    /\ filename_ret = <<>>
    /\ NormalizerIdle
    /\ FetcherIdle
    /\ StoppageIdle
    /\ MainIdle
    /\ retry_count = 0

CallSanitize ==
    /\ filename_ret = <<>>
    /\ filename_ret' = <<sanitize_filename(filename)>>
    /\ UNCHANGED <<filename, normalizer_vars, fetcher_vars, stoppage_vars, retry_count, main_vars>>

NextSanitize == CallSanitize

SpecSanitize == InitSanitize /\ [][NextSanitize]_vars

FetchUrl == <<"u">>

InitFetch ==
    /\ retry_count \in 0..MaxRetry
    /\ network \in [1..retry_count -> Responses]
    /\ fetch_ret = <<>>
    /\ NormalizerIdle
    /\ SanitizerIdle
    /\ StoppageIdle
    /\ MainIdle

CallFetch ==
    /\ fetch_ret = <<>>
    /\ fetch_ret' = <<fetch_html(FetchUrl, retry_count, network)>>
    /\ UNCHANGED <<retry_count, network, normalizer_vars, sanitizer_vars, stoppage_vars, main_vars>>

NextFetch == CallFetch

SpecFetch == InitFetch /\ [][NextFetch]_vars

\* group 1 of line 140: [A-Za-z\s]+
StopNames == {<<" ", "A", "b">>, <<"\n", "C", " ", "d", " ">>}

\* groups 2 and 3 of line 140: a clock time, two digits, or _\s*_
StopTimeTokens ==
    {<<"9", ":", "0", "0", " ", "A", "M">>, <<"1", "0">>, <<"_", " ", "_">>}

StoppageMatches == StopNames \X StopTimeTokens \X StopTimeTokens

\* groups 1 and 2 of line 162, when the pattern is found
RouteMatches == {<<>>, <<(<<"A", " ", "B", " ">>), (<<"C">>)>>}

InitStoppage ==
    /\ soup \in [fields : {EmptyDict},
                 matches : SeqsUpTo(StoppageMatches, MaxMatches),
                 route_match : RouteMatches,
                 notes : {<<>>}]
    /\ stoppage_ret = <<>>
    /\ NormalizerIdle
    /\ SanitizerIdle
    /\ FetcherIdle
    /\ MainIdle
    /\ retry_count = 0

CallExtractStoppage ==
    /\ stoppage_ret = <<>>
    /\ stoppage_ret' = <<extract_stoppage_info(soup)>>
    /\ UNCHANGED <<soup, normalizer_vars, sanitizer_vars, fetcher_vars, retry_count, main_vars>>

NextStoppage == CallExtractStoppage

SpecStoppage == InitStoppage /\ [][NextStoppage]_vars

(***************************************************************************)
(* scraper.main: the run over the pages start_page..end_page.              *)
(***************************************************************************)
BaseUrl == SiteBase \o <<"/", "b", "u", "s", "e", "s">>

PageParam == <<"?", "p", "a", "g", "e", "=">>

Digits == <<"1", "2", "3", "4", "5", "6", "7", "8", "9">>

\* lines 50-54
PageUrl(p) == IF p = 1 THEN BaseUrl ELSE BaseUrl \o PageParam \o <<Digits[p]>>

\* what the site answers to an attempt during a run
SiteResponses == {Ok(Html), Status(500)}

BusName == <<"A", "/", "B">>

RegNo == <<"W", "B", "1">>

BusHref == <<"/", "b", "u", "s", "/", "1">>

ImgSrc == <<"/", "i", ".", "p", "n", "g">>

TwoTimes == <<(<<"9", ":", "0", "0", " ", "A", "M">>), (<<"5", ":", "0", "0", " ", "P", "M">>)>>

\* the anchors with an href a listing page may hold
GoodCard ==
    [h4 |-> <<BusName>>, reg |-> <<RegNo>>, href |-> BusHref, img |-> <<ImgSrc>>,
     time_lines |-> TwoTimes]

NoRegCard == [GoodCard EXCEPT !.reg = <<>>]

EmptyNameCard == [GoodCard EXCEPT !.h4 = <<EmptyStr>>, !.time_lines = <<>>]

NoSrcCard == [GoodCard EXCEPT !.img = <<None>>]

MenuLink ==
    [h4 |-> <<>>, reg |-> <<>>, href |-> <<"/", "a">>, img |-> <<>>, time_lines |-> <<>>]

AdvertLink == [GoodCard EXCEPT !.href = <<"/", "a">>]

Cards == {GoodCard, NoRegCard, EmptyNameCard, NoSrcCard, MenuLink, AdvertLink}

\* the detail pages the site may serve
FullPage ==
    [fields |-> Put(Put(Put(EmptyDict, "agency_name", <<"X", " ">>),
                        "contact_number", <<"9">>),
                    "destination", <<"D">>),
     matches |-> <<(<<(<<" ", "A", "b">>), (<<"_", " ", "_">>), (<<"1", "0">>)>>)>>,
     route_match |-> <<(<<"A", " ">>), (<<"C">>)>>,
     notes |-> <<(<<"B", "u", "s", " ", "N", "o", "t", "e", "s">>)>>]

DetailPages == {FullPage, NoPage}

\* a bus card whose markup holds a name and a registration number
CardHasNameAndReg(card) ==
    /\ card.h4 # <<>> /\ card.h4[1] # EmptyStr
    /\ card.reg # <<>> /\ card.reg[1] # EmptyStr

Event(op) == [op |-> op, page |-> page]

\* the run is configured without retries or with the most retries
Init ==
    /\ retry_count \in {1, MaxRetry}
    /\ start_page \in 1..MaxPage
    /\ end_page \in 1..MaxPage
    /\ page = start_page
    /\ pc = "pages"
    /\ bus_cards = <<>>
    /\ all_data = <<>>
    /\ total_buses = 0
    /\ page_buses = 0
    /\ successful_downloads = 0
    /\ events = <<>>
    /\ csv_rows = <<>>
    /\ served = 0
    /\ provenance = <<>>
    /\ gated = 0
    /\ NormalizerIdle
    /\ SanitizerIdle
    /\ FetcherIdle
    /\ StoppageIdle

other_vars == <<normalizer_vars, sanitizer_vars, fetcher_vars, stoppage_vars, retry_count>>

\* lines 49-69: the next page is fetched; a failed fetch goes on to the next
\* page, a fetched page yields its cards
FetchPage ==
    /\ pc = "pages"
    /\ page <= end_page
    /\ \E responses \in [1..retry_count -> SiteResponses] :
         IF ~Truthy(fetch_html(PageUrl(page), retry_count, responses).result)
         THEN /\ events' = events \o <<Event("fetch_page"),
                                        Event("logging.error(Failed to fetch page)")>>
              /\ page' = page + 1
              /\ UNCHANGED <<pc, bus_cards, page_buses, served>>
         ELSE \E cards \in SeqsUpTo(Cards, MaxCards - served) :
                  /\ events' = Append(events, Event("fetch_page"))
                  /\ bus_cards' = cards
                  /\ served' = served + Len(cards)
                  /\ page_buses' = 0
                  /\ pc' = "cards"
                  /\ page' = page
    /\ UNCHANGED <<start_page, end_page, all_data, total_buses, successful_downloads,
                   csv_rows, provenance, gated, other_vars>>

\* line 94: the detail page is fetched for a card that passed line 85 and has a
\* detail_url
FetchesDetail(basic_data) ==
    PassesGate(basic_data) /\ Truthy(Get(basic_data, "detail_url"))

\* line 94: what fetch_html returns there
DetailHtml(basic_data, responses) ==
    IF FetchesDetail(basic_data)
    THEN fetch_html(basic_data["detail_url"], retry_count, responses).result
    ELSE None

\* the events of one card: the detail fetch, the warnings, and line 145's sleep
\* after a record
CardEvents(fetches, out) ==
    (IF fetches THEN <<Event("fetch_detail")>> ELSE <<>>)
    \o [i \in 1..Len(out.log) |-> Event(out.log[i])]
    \o (IF out.records # <<>> THEN <<Event("sleep(0.5)")>> ELSE <<>>)

\* lines 140-145
Keep(card, fetches, out) ==
    /\ all_data' = all_data \o out.records
    /\ total_buses' = total_buses + Len(out.records)
    /\ page_buses' = page_buses + Len(out.records)
    /\ successful_downloads' = successful_downloads + out.downloads
    /\ events' = events \o CardEvents(fetches, out)
    /\ provenance' = provenance \o out.origin
    /\ gated' = gated + (IF CardHasNameAndReg(card) THEN 1 ELSE 0)

HandleCard(card, basic_data, responses, detail_page, downloaded) ==
    Keep(card, FetchesDetail(basic_data),
         card_outcome(card, DetailHtml(basic_data, responses), detail_page, downloaded))

\* lines 71-149: one iteration of the loop over the cards
ProcessCard ==
    /\ pc = "cards"
    /\ bus_cards # <<>>
    /\ bus_cards' = Tail(bus_cards)
    /\ IF ~IsBusCard(Head(bus_cards)) \/ ~HasBusHref(Head(bus_cards))
       THEN UNCHANGED <<all_data, total_buses, page_buses, successful_downloads,
                        events, provenance, gated>>
       ELSE \E responses \in [1..retry_count -> SiteResponses],
               detail_page \in DetailPages, downloaded \in BOOLEAN :
                HandleCard(Head(bus_cards), parse_bus_from_card(Head(bus_cards)),
                           responses, detail_page, downloaded)
    /\ UNCHANGED <<pc, start_page, end_page, page, csv_rows, served, other_vars>>

\* lines 151-154: the page is done; sleep(2), then the next page
EndPage ==
    /\ pc = "cards"
    /\ bus_cards = <<>>
    /\ events' = Append(events, Event("sleep(2)"))
    /\ page' = page + 1
    /\ pc' = "pages"
    /\ UNCHANGED <<start_page, end_page, bus_cards, all_data, total_buses, page_buses,
                   successful_downloads, csv_rows, served, provenance, gated,
                   other_vars>>

\* lines 156-165: after the last page the rows are written, if there are any
Finish ==
    /\ pc = "pages"
    /\ page > end_page
    /\ csv_rows' = IF all_data # <<>> THEN <<all_data>> ELSE <<>>
    /\ pc' = "done"
    /\ UNCHANGED <<start_page, end_page, page, bus_cards, all_data, total_buses,
                   page_buses, successful_downloads, events, served, provenance,
                   gated, other_vars>>

Next == FetchPage \/ ProcessCard \/ EndPage \/ Finish

Spec == Init /\ [][Next]_vars

(***************************************************************************)
(* Claims about fetch_html, checked under SpecFetch.                       *)
(***************************************************************************)
AllAttemptsFail == \A i \in 1..retry_count : FailedAttempt(network[i])

\* the attempts that succeed, by number (1-based)
SuccessfulAttempts == {i \in 1..retry_count : ~FailedAttempt(network[i])}

FirstSuccess == CHOOSE k \in SuccessfulAttempts : \A j \in SuccessfulAttempts : k <= j

Count(seq, x) == Cardinality({i \in 1..Len(seq) : seq[i] = x})

\* C1: with retry_count >= 1 and every attempt failing (a status other than 200
\* or an exception of requests.get), the call sends exactly retry_count
\* requests, returns None, and lets no exception out.
C1_ExhaustedAttemptsReturnNone ==
    (fetch_ret # <<>> /\ retry_count >= 1 /\ AllAttemptsFail)
        => /\ fetch_ret[1].requests = retry_count
           /\ fetch_ret[1].result = None
           /\ ~fetch_ret[1].raised

\* an endpoint that always answers 500, called with retry_count = 3
C1_Witness ==
    /\ fetch_ret # <<>>
    /\ retry_count = 3
    /\ \A i \in 1..retry_count : network[i] = Status(500)
    /\ fetch_ret[1].requests = 3
    /\ fetch_ret[1].result = None

\* C5: inside one call the sleep(2) comes between every two consecutive
\* attempts and nowhere else: requests and sleeps alternate and the last event
\* is a request; a call that succeeds on attempt k has sent k requests and
\* slept k-1 times, a call whose attempts all fail has sent retry_count
\* requests and slept retry_count-1 times.
C5_DelayOnlyBetweenAttempts ==
    (fetch_ret # <<>> /\ retry_count >= 1)
        => LET ev == fetch_ret[1].events
           IN  /\ \A i \in 1..Len(ev) :
                     ev[i] = IF i % 2 = 1 THEN "request" ELSE "sleep"
               /\ ev # <<>> /\ ev[Len(ev)] = "request"
               /\ SuccessfulAttempts # {}
                     => /\ Count(ev, "request") = FirstSuccess
                        /\ Count(ev, "sleep") = FirstSuccess - 1
                        /\ fetch_ret[1].result = network[FirstSuccess].text
               /\ AllAttemptsFail
                     => /\ Count(ev, "request") = retry_count
                        /\ Count(ev, "sleep") = retry_count - 1

\* a call that fails twice and succeeds on the third attempt, and a call whose
\* three attempts all fail, are both made
C5_Witness ==
    /\ fetch_ret # <<>>
    /\ retry_count = 3
    /\ FailedAttempt(network[1]) /\ FailedAttempt(network[2])
    /\ network[3] = Ok(Html)
    /\ fetch_ret[1].events = <<"request", "sleep", "request", "sleep", "request">>

\* C6: every failed attempt, a status other than 200 as well as an exception,
\* writes one log entry holding the status or error and the number of the
\* attempt that failed.
C6_EveryFailureLogsAttemptNumber ==
    fetch_ret # <<>>
        => LET log == fetch_ret[1].log
               failed == {i \in 1..fetch_ret[1].requests : FailedAttempt(network[i])}
           IN  /\ Len(log) = Cardinality(failed)
               /\ \A i \in 1..Len(log) :
                     /\ "status_code" \in DOMAIN log[i] \/ "e" \in DOMAIN log[i]
                     /\ "attempt" \in DOMAIN log[i]
                     /\ log[i].attempt \in failed

(***************************************************************************)
(* Claims about clean_time_string, checked under SpecClean.                *)
(***************************************************************************)
\* the tokens H:MM AM/PM, hour and minutes, one space, AM or PM
SpacedClockTimes == {t \in ClockTimes : \E i \in 1..Len(t) : t[i] = " "}

\* C3: a valid 12-hour clock time H:MM AM/PM is returned unchanged.
C3_ClockTimeUnchanged ==
    (time_ret # <<>> /\ time_str \in SpacedClockTimes) => time_ret[1] = time_str

\* C8: an argument that is empty, all whitespace, or made only of underscores,
\* dashes, whitespace and zeros in any order gives exactly "00".
C8_PlaceholderIsOneDoubleZero ==
    (/\ time_ret # <<>>
     /\ \A i \in 1..Len(time_str) : time_str[i] \in {"_", "-", "0", " ", "\t", "\n"})
        => time_ret[1] = <<"0", "0">>

\* clean_time_string("0_0") has returned "00"
C8_Witness ==
    /\ time_str = <<"0", "_", "0">>
    /\ time_ret = <<(<<"0", "0">>)>>

(***************************************************************************)
(* Claims about sanitize_filename, checked under SpecSanitize.             *)
(***************************************************************************)
WsBefore(s, i) == Cardinality({j \in 1..(i - 1) : s[j] \in Whitespace})

\* a maximal run of whitespace starts at i
RunStart(s, i) == s[i] \in Whitespace /\ (i = 1 \/ s[i - 1] \notin Whitespace)

RunsBefore(s, i) == Cardinality({j \in 1..(i - 1) : RunStart(s, j)})

\* where the character at i (not whitespace), or the "_" of the run starting at
\* i, stands in the result
OutPos(s, i) == i - WsBefore(s, i) + RunsBefore(s, i)

\* C9: each of < > : " / \ | ? * becomes one "_" (one for one), each maximal run
\* of whitespace becomes one "_", every other character stays where it is in
\* order, nothing is cut or stripped; the result holds no forbidden character
\* and no whitespace, and "Bus/Name: A*B" gives "Bus_Name__A_B".
C9_SanitizeCharacterByCharacter ==
    filename_ret # <<>>
        => LET s == filename
               out == filename_ret[1]
           IN  /\ Len(out) = Len(s) - WsBefore(s, Len(s) + 1) + RunsBefore(s, Len(s) + 1)
               /\ \A i \in 1..Len(s) :
                     /\ s[i] \in {"<", ">", ":", "\"", "/", "\\", "|", "?", "*"}
                           => out[OutPos(s, i)] = "_"
                     /\ RunStart(s, i) => out[OutPos(s, i)] = "_"
                     /\ s[i] \notin {"<", ">", ":", "\"", "/", "\\", "|", "?", "*",
                                     " ", "\t", "\n"}
                           => out[OutPos(s, i)] = s[i]
               /\ \A k \in 1..Len(out) :
                     out[k] \notin {"<", ">", ":", "\"", "/", "\\", "|", "?", "*",
                                    " ", "\t", "\n"}
               /\ s = ExampleFilename
                     => out = <<"B", "u", "s", "_", "N", "a", "m", "e", "_", "_",
                                "A", "_", "B">>

\* sanitize_filename("Bus/Name: A*B") has returned "Bus_Name__A_B"
C9_Witness ==
    /\ filename = ExampleFilename
    /\ filename_ret = <<(<<"B", "u", "s", "_", "N", "a", "m", "e", "_", "_",
                           "A", "_", "B">>)>>

(***************************************************************************)
(* Claims about extract_stoppage_info, checked under SpecStoppage.         *)
(***************************************************************************)
\* C4: with n >= 1 matches the three fields are present; all_stoppage holds n
\* entries separated by "; ", up_time and down_time n entries each separated
\* by ", ", all in the order of the matches: the i-th entry of all_stoppage is
\* "<name>, Uptime- <up>, DownTime- <down>" of the i-th match, with <up> and
\* <down> the i-th entries of up_time and down_time, which are the normalized
\* time tokens of that match.
C4_StoppagesKeepOrderAndCorrespond ==
    (stoppage_ret # <<>> /\ Len(soup.matches) >= 1)
        => LET d == stoppage_ret[1]
               n == Len(soup.matches)
           IN  /\ {"all_stoppage", "up_time", "down_time"} \subseteq DOMAIN d
               /\ LET entries == split(d["all_stoppage"], <<";", " ">>)
                      ups == split(d["up_time"], <<",", " ">>)
                      downs == split(d["down_time"], <<",", " ">>)
                  IN  /\ Len(entries) = n
                      /\ Len(ups) = n
                      /\ Len(downs) = n
                      /\ \A i \in 1..n :
                            /\ ups[i] = clean_time_string(soup.matches[i][2])
                            /\ downs[i] = clean_time_string(soup.matches[i][3])
                            /\ entries[i] =
                                  strip(soup.matches[i][1])
                                  \o <<",", " ", "U", "p", "t", "i", "m", "e", "-", " ">>
                                  \o ups[i]
                                  \o <<",", " ", "D", "o", "w", "n", "T", "i", "m", "e",
                                       "-", " ">>
                                  \o downs[i]

\* two matches with different times have been extracted, in their order
C4_Witness ==
    /\ stoppage_ret # <<>>
    /\ Len(soup.matches) = 2
    /\ soup.matches[1][2] = <<"_", " ", "_">>
    /\ soup.matches[2][2] = <<"1", "0">>
    /\ stoppage_ret[1]["up_time"] = <<"0", "0", ",", " ", "1", "0">>

(***************************************************************************)
(* Claims about main, checked under Spec.                                  *)
(***************************************************************************)
\* C2: every record of all_data came from a card whose name and registration
\* number were both present and not empty, and holds them as its 'Bus Name'
\* and 'Bus Number', neither of which is the empty string; no card lacking
\* one of them has produced a record.
C2_RecordsHaveNameAndRegistration ==
    /\ Len(provenance) = Len(all_data)
    /\ Len(all_data) <= gated
    /\ \A i \in 1..Len(all_data) :
          /\ provenance[i].card.h4 # <<>>
          /\ provenance[i].card.reg # <<>>
          /\ all_data[i]["Bus Name"] = provenance[i].card.h4[1]
          /\ all_data[i]["Bus Number"] = provenance[i].card.reg[1]
          /\ all_data[i]["Bus Name"] # <<>>
          /\ all_data[i]["Bus Number"] # <<>>

\* a card was skipped for missing basic info, and another card gave a record
C2_Witness ==
    /\ \E i \in 1..Len(events) :
          events[i].op = "logging.warning(Skipping bus card with missing basic info)"
    /\ Len(all_data) >= 1
    /\ all_data[1]["Bus Name"] = <<"A", "/", "B">>
    /\ all_data[1]["Bus Number"] = <<"W", "B", "1">>

\* C7: between the fetch of a listing page and the fetch of the next one the
\* sleep(2) of line 154 is executed, whatever the first page's fetch and cards
\* gave.
C7_DelayBetweenSuccessivePages ==
    \A i \in 1..Len(events) : \A j \in (i + 1)..Len(events) :
        (/\ events[i].op = "fetch_page"
         /\ events[j].op = "fetch_page"
         /\ events[j].page = events[i].page + 1)
            => \E k \in (i + 1)..(j - 1) : events[k].op = "sleep(2)"

DetailColumns ==
    {"Route", "All Stoppage", "Stoppage Time", "Up Time", "Down Time",
     "AlternateName", "Agency Name", "Bus Type", "Contact Number",
     "Alternate Number", "Depot Name", "Destination"}

KeepsNameAndRegistration(i) ==
    /\ all_data[i]["Bus Name"] = provenance[i].card.h4[1]
    /\ all_data[i]["Bus Number"] = provenance[i].card.reg[1]

DetailColumnsEmpty(i) == \A c \in DetailColumns : all_data[i][c] = <<>>

\* C10 as stated: every card with a name and a registration gives exactly one
\* record; when the card has no detail URL, its detail fetch fails or its image
\* download fails, the record keeps name and registration and every
\* detail-derived column is the empty string.
C10_AsStated ==
    /\ Len(all_data) = gated
    /\ Len(provenance) = gated
    /\ \A i \in 1..Len(all_data) :
          (\/ provenance[i].detail \in {"no_url", "failed"}
           \/ provenance[i].image = "failed")
              => KeepsNameAndRegistration(i) /\ DetailColumnsEmpty(i)

\* C10, amended: every card with a name and a registration gives exactly one
\* record, which keeps the card's name and registration, also when the card
\* has no detail URL, its detail fetch fails or its image download fails; the
\* detail-derived columns are all the empty string when the card has no detail
\* URL or its detail fetch fails (a failed image download leaves them as the
\* detail page gave them).
C10_OneRecordPerValidCard ==
    /\ Len(all_data) = gated
    /\ Len(provenance) = gated
    /\ \A i \in 1..Len(all_data) :
          /\ KeepsNameAndRegistration(i)
          /\ provenance[i].detail \in {"no_url", "failed"} => DetailColumnsEmpty(i)

\* a card whose detail fetch and image download both failed gave a record with
\* empty detail columns, and the next card of the page gave a record too
C10_Witness ==
    /\ Len(all_data) = 2
    /\ gated = 2
    /\ provenance[1].detail = "failed"
    /\ provenance[1].image = "failed"
    /\ DetailColumnsEmpty(1)
    /\ provenance[2].detail = "fetched"
    /\ all_data[2]["Agency Name"] = <<"X">>

====
